---- MODULE Spec2Model ----
(***************************************************************************)
(* A state-machine model of hivemq_random_data.py: the module-level setup  *)
(* of the MQTT client (lines 27-32), generate_cargo_data (lines 34-44),    *)
(* run_simulation (lines 46-63) and the on_connect callback (lines 21-25)  *)
(* that the client's network thread runs between loop_start and loop_stop. *)
(*                                                                         *)
(* Numbers with decimals are kept as scaled integers.  One "quantum" is    *)
(* the last digit that round() keeps (0.0001 for lat/lon, 0.1 for          *)
(* temperature and battery); values before rounding are counted in units   *)
(* of 1/Sub quantum.                                                       *)
(***************************************************************************)
EXTENDS Integers, Sequences, FiniteSets, TLC

(* ------------------------------ bounds --------------------------------- *)
\* Subdivisions of one rounding quantum in which random draws are counted.
Sub == 4
\* How many times the network thread may invoke on_connect in one run.
MaxCallbacks == 1
\* The largest CONNACK result code the network thread may report.
MaxRc == 1

(* ------------------------- program constants --------------------------- *)
TOPIC == "cargo/telemetry"
INTERVAL == 5
DURATION_HOURS == 5
TOTAL_STEPS == (DURATION_HOURS * 3600) \div INTERVAL
QOS == 1

\* generate_cargo_data's literals, in quanta.
BaseLat == 13521
BaseLon == 1038198
JitterLatLon == 10
BaseTemp == 42
JitterTemp == 5
BaseBattery == 870
BatteryDrain == 20

(* ------------------------------ state ---------------------------------- *)
VARIABLES
    pc,          \* the main thread's position (the statement it runs next)
    cfg,         \* the client's configuration: callback, credentials, TLS
    rangePos,    \* the next value range(TOTAL_STEPS) yields
    i,           \* the loop variable
    data,        \* the local variable data (Unbound before line 53 ran)
    now,         \* the wall clock, in seconds since the program started
    exc,         \* the exception in flight in run_simulation, "none" if none
    raised,      \* the exception raised in the try block and the statement
                 \* that raised it (Unbound if none was raised)
    outcome,     \* how run_simulation ended: "running", "returned" or the
                 \* exception that propagated to its caller
    calls,       \* how often each client / library call has been invoked
    lastPublish, \* the arguments of the latest client.publish call
    progress,    \* the latest progress line printed at line 56
    stdout,      \* the status lines printed at lines 48 and 60, in order
    loopRunning, \* whether the client's network thread is running
    cbLog        \* the lines printed by on_connect, in order

vars == <<pc, cfg, rangePos, i, data, now, exc, raised, outcome, calls,
          lastPublish, progress, stdout, loopRunning, cbLog>>

\* What the loop of run_simulation reads and writes.
loopVars == <<pc, rangePos, i, data, now, exc, raised, outcome, calls,
              lastPublish, progress, stdout>>

Unbound == [unbound |-> TRUE]

CallNames == {"connect", "loop_start", "generate", "publish", "sleep",
              "loop_stop", "disconnect"}

Called(c) == [calls EXCEPT ![c] = @ + 1]

(* --------------------------- pure functions ---------------------------- *)
\* round(x, ndigits) of Python on a value of n/Sub quanta: the nearest
\* quantum, a tie going to the even one.
Round(n) ==
    LET q == n \div Sub
        r == n % Sub
    IN  IF 2 * r < Sub THEN q
        ELSE IF 2 * r > Sub THEN q + 1
        ELSE IF q % 2 = 0 THEN q ELSE q + 1

\* datetime.utcnow().isoformat() + "Z"
Timestamp(t) == <<t \div 3600, (t \div 60) % 60, t % 60, "Z">>

\* The draws generate_cargo_data takes from the random source, in the order
\* of lines 39-43: three random.uniform(-a, a) and one random.random() * 2.
UniformDraws(a) == (0 - a * Sub)..(a * Sub)
RandomTimes2Draws == 0..(BatteryDrain * Sub - 1)

\* Variant: the battery decrement is added instead of subtracted.
generate_cargo_data_PlusDrain(d, t) ==
    [device_id   |-> "CARGO-ESP32-001",
     timestamp   |-> Timestamp(t),
     location    |-> [lat |-> Round(BaseLat * Sub + d[1]),
                      lon |-> Round(BaseLon * Sub + d[2])],
     temperature |-> Round(BaseTemp * Sub + d[3]),
     battery     |-> Round(BaseBattery * Sub + d[4])]

generate_cargo_data(d, t) ==
    [device_id   |-> "CARGO-ESP32-001",
     timestamp   |-> Timestamp(t),
     location    |-> [lat |-> Round(BaseLat * Sub + d[1]),
                      lon |-> Round(BaseLon * Sub + d[2])],
     temperature |-> Round(BaseTemp * Sub + d[3]),
     battery     |-> Round(BaseBattery * Sub - d[4])]

\* json.dumps(data): the members in insertion order, each a key and a value.
json_dumps(d) ==
    <<<<"device_id", d.device_id>>,
      <<"timestamp", d.timestamp>>,
      <<"location", <<<<"lat", d.location.lat>>, <<"lon", d.location.lon>>>>>>,
      <<"temperature", d.temperature>>,
      <<"battery", d.battery>>>>

\* The draws the publish loop is explored with: every draw at its lowest and
\* every draw at its highest value.
LoopDraws ==
    {<<0 - JitterLatLon * Sub, 0 - JitterLatLon * Sub, 0 - JitterTemp * Sub,
       BatteryDrain * Sub - 1>>,
     <<JitterLatLon * Sub, JitterLatLon * Sub, JitterTemp * Sub, 0>>}

\* The draws generate_cargo_data is explored with on its own: each draw runs
\* over its whole range while the others sit at a lowest or highest value.
Ends(S) == {CHOOSE x \in S : \A y \in S : x <= y,
            CHOOSE x \in S : \A y \in S : x >= y}
GenDraws ==
    LET L == UniformDraws(JitterLatLon)
        T == UniformDraws(JitterTemp)
        B == RandomTimes2Draws
    IN  (L \X Ends(L) \X Ends(T) \X Ends(B))
          \cup (Ends(L) \X L \X Ends(T) \X Ends(B))
          \cup (Ends(L) \X Ends(L) \X T \X Ends(B))
          \cup (Ends(L) \X Ends(L) \X Ends(T) \X B)

(* ----------------------------- exceptions ------------------------------ *)
\* Variant: a bare except clause, which catches every exception.
Caught_Any(e) == TRUE

\* The except clause of line 59.
Caught(e) == e = "KeyboardInterrupt"

\* The positions inside the try block of lines 47-57.
TryPcs == {"print_connecting", "connect", "loop_start", "for", "generate",
           "publish", "print_progress", "sleep"}

\* An exception e raised inside the try block: to the handler of line 59 if
\* it matches, else to the finally block with e still in flight.
Raise(e) ==
    /\ exc' = e
    /\ raised' = [stmt |-> pc, exc |-> e]
    /\ pc' = IF Caught(e) THEN "except" ELSE "loop_stop"

(* ------------------------------- Init ---------------------------------- *)
Init ==
    /\ pc = "create_client"
    /\ cfg = [created |-> FALSE, on_connect |-> FALSE, credentials |-> FALSE,
              tls |-> FALSE]
    /\ rangePos = 0
    /\ i = 0
    /\ data = Unbound
    /\ now = 0
    /\ exc = "none"
    /\ raised = Unbound
    /\ outcome = "running"
    /\ calls = [c \in CallNames |-> 0]
    /\ lastPublish = Unbound
    /\ progress = Unbound
    /\ stdout = <<>>
    /\ loopRunning = FALSE
    /\ cbLog = <<>>

(* ------------------------ module-level statements ---------------------- *)
\* line 27: client = mqtt.Client()
CreateClient ==
    /\ pc = "create_client"
    /\ cfg' = [cfg EXCEPT !.created = TRUE]
    /\ pc' = "set_on_connect"
    /\ UNCHANGED <<rangePos, i, data, now, exc, raised, outcome, calls,
                   lastPublish, progress, stdout, loopRunning, cbLog>>

\* line 28: client.on_connect = on_connect
SetOnConnect ==
    /\ pc = "set_on_connect"
    /\ cfg' = [cfg EXCEPT !.on_connect = TRUE]
    /\ pc' = "username_pw_set"
    /\ UNCHANGED <<rangePos, i, data, now, exc, raised, outcome, calls,
                   lastPublish, progress, stdout, loopRunning, cbLog>>

\* Variant: the credentials are never configured.
UsernamePwSet_Skipped ==
    /\ pc = "username_pw_set"
    /\ pc' = "tls_set"
    /\ UNCHANGED <<cfg, rangePos, i, data, now, exc, raised, outcome, calls,
                   lastPublish, progress, stdout, loopRunning, cbLog>>

\* line 31: client.username_pw_set(USERNAME, PASSWORD)
UsernamePwSet ==
    /\ pc = "username_pw_set"
    /\ cfg' = [cfg EXCEPT !.credentials = TRUE]
    /\ pc' = "tls_set"
    /\ UNCHANGED <<rangePos, i, data, now, exc, raised, outcome, calls,
                   lastPublish, progress, stdout, loopRunning, cbLog>>

\* line 32: client.tls_set(...)
TlsSet ==
    /\ pc = "tls_set"
    /\ cfg' = [cfg EXCEPT !.tls = TRUE]
    /\ pc' = "main"
    /\ UNCHANGED <<rangePos, i, data, now, exc, raised, outcome, calls,
                   lastPublish, progress, stdout, loopRunning, cbLog>>

\* lines 65-66: run_simulation() is called.
CallRunSimulation ==
    /\ pc = "main"
    /\ pc' = "print_connecting"
    /\ UNCHANGED <<cfg, rangePos, i, data, now, exc, raised, outcome, calls,
                   lastPublish, progress, stdout, loopRunning, cbLog>>

(* ---------------------------- run_simulation --------------------------- *)
\* line 48: print("Connecting to ...")
PrintConnecting ==
    /\ pc = "print_connecting"
    /\ stdout' = Append(stdout, "Connecting")
    /\ pc' = "connect"
    /\ UNCHANGED <<cfg, rangePos, i, data, now, exc, raised, outcome, calls,
                   lastPublish, progress, loopRunning, cbLog>>

\* Variant: a connect that raised an error is tried a second time.
Connect_Retry ==
    /\ pc = "connect"
    /\ calls' = Called("connect")
    /\ \/ /\ pc' = "loop_start"
          /\ UNCHANGED <<exc, raised>>
       \/ IF calls["connect"] = 0
            THEN pc' = "connect" /\ UNCHANGED <<exc, raised>>
            ELSE Raise("Error")
       \/ Raise("KeyboardInterrupt")
    /\ UNCHANGED <<cfg, rangePos, i, data, now, outcome, lastPublish,
                   progress, stdout, loopRunning, cbLog>>

\* line 49: client.connect(BROKER_ADDRESS, PORT, 60) returns, raises an
\* error, or is interrupted while it blocks.
Connect ==
    /\ pc = "connect"
    /\ calls' = Called("connect")
    /\ \/ /\ pc' = "loop_start"
          /\ UNCHANGED <<exc, raised>>
       \/ Raise("Error")
       \/ Raise("KeyboardInterrupt")
    /\ UNCHANGED <<cfg, rangePos, i, data, now, outcome, lastPublish,
                   progress, stdout, loopRunning, cbLog>>

\* line 50: client.loop_start() starts the network thread.
LoopStart ==
    /\ pc = "loop_start"
    /\ calls' = Called("loop_start")
    /\ loopRunning' = TRUE
    /\ pc' = "for"
    /\ UNCHANGED <<cfg, rangePos, i, data, now, exc, raised, outcome,
                   lastPublish, progress, stdout, cbLog>>

\* Variant: the loop runs over range(TOTAL_STEPS + 1).
ForNext_OneMore ==
    /\ pc = "for"
    /\ IF rangePos < TOTAL_STEPS + 1
         THEN /\ i' = rangePos
              /\ rangePos' = rangePos + 1
              /\ pc' = "generate"
         ELSE /\ pc' = "loop_stop"
              /\ UNCHANGED <<i, rangePos>>
    /\ UNCHANGED <<cfg, data, now, exc, raised, outcome, calls, lastPublish,
                   progress, stdout, loopRunning, cbLog>>

\* line 52: for i in range(TOTAL_STEPS): the next value, or the end of the
\* loop, after which the try block is left for the finally block.
ForNext ==
    /\ pc = "for"
    /\ IF rangePos < TOTAL_STEPS
         THEN /\ i' = rangePos
              /\ rangePos' = rangePos + 1
              /\ pc' = "generate"
         ELSE /\ pc' = "loop_stop"
              /\ UNCHANGED <<i, rangePos>>
    /\ UNCHANGED <<cfg, data, now, exc, raised, outcome, calls, lastPublish,
                   progress, stdout, loopRunning, cbLog>>

\* line 53: data = generate_cargo_data()
Generate ==
    /\ pc = "generate"
    /\ \E d \in LoopDraws : data' = generate_cargo_data(d, now)
    /\ calls' = Called("generate")
    /\ pc' = "publish"
    /\ UNCHANGED <<cfg, rangePos, i, now, exc, raised, outcome, lastPublish,
                   progress, stdout, loopRunning, cbLog>>

\* line 54: client.publish(TOPIC, json.dumps(data), qos=1) returns or raises
\* an error.
Publish ==
    /\ pc = "publish"
    /\ calls' = Called("publish")
    /\ lastPublish' = [topic |-> TOPIC, payload |-> json_dumps(data),
                       qos |-> QOS]
    /\ \/ /\ pc' = "print_progress"
          /\ UNCHANGED <<exc, raised>>
       \/ Raise("Error")
    /\ UNCHANGED <<cfg, rangePos, i, data, now, outcome, progress, stdout,
                   loopRunning, cbLog>>

\* line 56: print(f"[{i+1}/{TOTAL_STEPS}] Published to HiveMQ: ...")
PrintProgress ==
    /\ pc = "print_progress"
    /\ progress' = [index |-> i + 1, total |-> TOTAL_STEPS,
                    temperature |-> data.temperature]
    /\ pc' = "sleep"
    /\ UNCHANGED <<cfg, rangePos, i, data, now, exc, raised, outcome, calls,
                   lastPublish, stdout, loopRunning, cbLog>>

\* Variant: no sleep after the last publish.
Sleep_NotAfterLast ==
    /\ pc = "sleep"
    /\ \/ /\ IF rangePos < TOTAL_STEPS
                THEN calls' = Called("sleep") /\ now' = now + INTERVAL
                ELSE UNCHANGED <<calls, now>>
          /\ pc' = "for"
          /\ UNCHANGED <<exc, raised>>
       \/ /\ Raise("KeyboardInterrupt")
          /\ UNCHANGED <<calls, now>>
    /\ UNCHANGED <<cfg, rangePos, i, data, outcome, lastPublish, progress,
                   stdout, loopRunning, cbLog>>

\* line 57: time.sleep(INTERVAL) returns after INTERVAL seconds, or is
\* interrupted while it blocks.
Sleep ==
    /\ pc = "sleep"
    /\ \/ /\ calls' = Called("sleep")
          /\ now' = now + INTERVAL
          /\ pc' = "for"
          /\ UNCHANGED <<exc, raised>>
       \/ /\ Raise("KeyboardInterrupt")
          /\ UNCHANGED <<calls, now>>
    /\ UNCHANGED <<cfg, rangePos, i, data, outcome, lastPublish, progress,
                   stdout, loopRunning, cbLog>>

\* A KeyboardInterrupt delivered to the main thread between two statements
\* of the try block, the region the handler of line 59 guards.  (Connect and
\* Sleep also model one that arrives while the call blocks.)
Interrupt ==
    /\ pc \in TryPcs
    /\ Raise("KeyboardInterrupt")
    /\ UNCHANGED <<cfg, rangePos, i, data, now, outcome, calls, lastPublish,
                   progress, stdout, loopRunning, cbLog>>

\* Variant: the handler leaves run_simulation without the finally block.
ExceptKeyboardInterrupt_NoFinally ==
    /\ pc = "except"
    /\ stdout' = Append(stdout, "Stopping")
    /\ exc' = "none"
    /\ outcome' = "returned"
    /\ pc' = "done"
    /\ UNCHANGED <<raised, cfg, rangePos, i, data, now, calls, lastPublish,
                   progress, loopRunning, cbLog>>

\* lines 59-60: except KeyboardInterrupt: print("\nStopping...")
ExceptKeyboardInterrupt ==
    /\ pc = "except"
    /\ stdout' = Append(stdout, "Stopping")
    /\ exc' = "none"
    /\ pc' = "loop_stop"
    /\ UNCHANGED <<raised, cfg, rangePos, i, data, now, outcome, calls,
                   lastPublish, progress, loopRunning, cbLog>>

\* Variant: loop_stop never returns.
LoopStop_Blocks ==
    /\ pc = "loop_stop"
    /\ UNCHANGED vars

\* line 62: client.loop_stop() stops the network thread.
LoopStop ==
    /\ pc = "loop_stop"
    /\ calls' = Called("loop_stop")
    /\ loopRunning' = FALSE
    /\ pc' = "disconnect"
    /\ UNCHANGED <<cfg, rangePos, i, data, now, exc, raised, outcome,
                   lastPublish, progress, stdout, cbLog>>

\* Variant: the finally block ends with a return, which drops the exception
\* in flight.
Disconnect_ThenReturn ==
    /\ pc = "disconnect"
    /\ calls' = Called("disconnect")
    /\ outcome' = "returned"
    /\ pc' = "done"
    /\ UNCHANGED <<cfg, rangePos, i, data, now, exc, raised, lastPublish,
                   progress, stdout, loopRunning, cbLog>>

\* line 63: client.disconnect(); then the finally block ends: run_simulation
\* returns, or the exception in flight propagates to the caller.
Disconnect ==
    /\ pc = "disconnect"
    /\ calls' = Called("disconnect")
    /\ outcome' = IF exc = "none" THEN "returned" ELSE exc
    /\ pc' = "done"
    /\ UNCHANGED <<cfg, rangePos, i, data, now, exc, raised, lastPublish,
                   progress, stdout, loopRunning, cbLog>>

(* ------------------------- the network thread -------------------------- *)
\* Variant: on a failure code the callback makes the main thread leave the
\* loop.
on_connect_StopsLoop(rc) ==
    /\ cbLog' = Append(cbLog, IF rc = 0 THEN <<"Successfully connected">>
                                        ELSE <<"Connection failed", rc>>)
    /\ pc' = IF rc # 0 /\ pc \in TryPcs THEN "loop_stop" ELSE pc
    /\ UNCHANGED <<rangePos, i, data, now, exc, raised, outcome, calls,
                   lastPublish, progress, stdout>>

\* lines 21-25: on_connect(client, userdata, flags, rc), run by the network
\* thread that loop_start started, with the result code of a CONNACK.
on_connect(rc) ==
    /\ cbLog' = Append(cbLog, IF rc = 0 THEN <<"Successfully connected">>
                                        ELSE <<"Connection failed", rc>>)
    /\ UNCHANGED loopVars

OnConnect ==
    /\ loopRunning
    /\ cfg.on_connect
    /\ Len(cbLog) < MaxCallbacks
    /\ \E rc \in 0..MaxRc : on_connect(rc)
    /\ UNCHANGED <<cfg, loopRunning>>

(* --------------------------- specifications ---------------------------- *)
Next ==
    \/ CreateClient
    \/ SetOnConnect
    \/ UsernamePwSet
    \/ TlsSet
    \/ CallRunSimulation
    \/ PrintConnecting
    \/ Connect
    \/ LoopStart
    \/ ForNext
    \/ Generate
    \/ Publish
    \/ PrintProgress
    \/ Sleep
    \/ Interrupt
    \/ ExceptKeyboardInterrupt
    \/ LoopStop
    \/ Disconnect
    \/ OnConnect

Spec == Init /\ [][Next]_vars

\* The steps of the main thread.  The interpreter keeps running the main
\* thread, and every call it makes returns or raises; nothing obliges a
\* KeyboardInterrupt or a CONNACK to arrive.
MainStep ==
    \/ CreateClient
    \/ SetOnConnect
    \/ UsernamePwSet
    \/ TlsSet
    \/ CallRunSimulation
    \/ PrintConnecting
    \/ Connect
    \/ LoopStart
    \/ ForNext
    \/ Generate
    \/ Publish
    \/ PrintProgress
    \/ Sleep
    \/ ExceptKeyboardInterrupt
    \/ LoopStop
    \/ Disconnect

FairSpec == Init /\ [][Next]_vars /\ WF_vars(MainStep)

\* generate_cargo_data on its own: called again and again, each time with
\* other draws of the random source.
GenerateCall ==
    /\ \E d \in GenDraws : data' = generate_cargo_data(d, now)
    /\ UNCHANGED <<pc, cfg, rangePos, i, now, exc, raised, outcome, calls,
                   lastPublish, progress, stdout, loopRunning, cbLog>>

SpecGen == Init /\ [][GenerateCall]_vars

(* ------------------------------ properties ----------------------------- *)
\* The run was interrupted: the handler of line 60 printed its line.
Interrupted == \E k \in 1..Len(stdout) : stdout[k] = "Stopping"

\* client.connect was called and raised the exception e.
ConnectRaised(e) ==
    /\ raised # Unbound
    /\ raised = [stmt |-> "connect", exc |-> e]
    /\ calls["connect"] = 1

\* client.publish was called and raised an error.
PublishRaised ==
    /\ raised # Unbound
    /\ raised = [stmt |-> "publish", exc |-> "Error"]

TeardownOnce == calls["loop_stop"] = 1 /\ calls["disconnect"] = 1

C2_PublishCount ==
    /\ calls["publish"] <= (DURATION_HOURS * 3600) \div INTERVAL
    /\ calls["publish"] <= 3600
    /\ (pc = "done" /\ outcome = "returned" /\ raised = Unbound)
         => /\ calls["publish"] = (DURATION_HOURS * 3600) \div INTERVAL
            /\ calls["publish"] = 3600

C2_Witness ==
    /\ pc = "done"
    /\ outcome = "returned"
    /\ raised = Unbound
    /\ calls["publish"] = 3600

C4_NoLoopAfterFailedConnect ==
    /\ calls["connect"] <= 1
    /\ (ConnectRaised("Error") \/ ConnectRaised("KeyboardInterrupt"))
         => /\ calls["loop_start"] = 0
            /\ calls["publish"] = 0
            /\ calls["generate"] = 0
            /\ ~loopRunning

C4_Witness ==
    /\ pc = "done"
    /\ ConnectRaised("KeyboardInterrupt")
    /\ calls["loop_start"] = 0

C6_LifecycleOrder ==
    [][/\ calls'["connect"] > calls["connect"]
            => cfg.credentials /\ cfg.tls
       /\ calls'["publish"] > calls["publish"]
            => /\ calls["connect"] = 1
               /\ calls["loop_start"] = 1
               /\ raised = Unbound
               /\ loopRunning
               /\ calls["loop_stop"] = 0
               /\ calls["disconnect"] = 0
       /\ calls'["loop_start"] > calls["loop_start"]
            => calls["connect"] = 1 /\ raised = Unbound]_vars

C6_Witness ==
    /\ pc = "done"
    /\ calls["publish"] = 2
    /\ cfg.credentials
    /\ cfg.tls
    /\ TeardownOnce

C8_ReadingRanges ==
    data # Unbound =>
        /\ data.location.lat \in 13511..13531
        /\ data.location.lon \in 1038188..1038208
        /\ data.temperature \in 37..47
        /\ data.battery \in 850..870

\* A reading at the low end of three ranges and the top of the fourth.
C8_Witness ==
    /\ data # Unbound
    /\ data.location.lat = 13511
    /\ data.location.lon = 1038188
    /\ data.temperature = 37
    /\ data.battery = 870

\* C9: iteration k = i + 1 generates one reading, publishes that reading
\* once to cargo/telemetry with qos 1, prints the progress line with index k
\* and then sleeps once; the next publish never comes before that sleep has
\* completed; the loop is left at its end only after TOTAL_STEPS sleeps.
C9_SequentialIterations ==
    /\ pc \in {"generate", "publish", "print_progress", "sleep"}
         => /\ i + 1 \in 1..TOTAL_STEPS
            /\ rangePos = i + 1
            /\ calls["sleep"] = i
            /\ now = i * INTERVAL
    /\ pc = "generate"
         => calls["generate"] = i /\ calls["publish"] = i
    /\ pc = "publish"
         => calls["generate"] = i + 1 /\ calls["publish"] = i
    /\ pc \in {"print_progress", "sleep"}
         => /\ calls["generate"] = i + 1
            /\ calls["publish"] = i + 1
            /\ lastPublish = [topic |-> "cargo/telemetry",
                              payload |-> json_dumps(data), qos |-> 1]
    /\ pc = "sleep"
         => progress = [index |-> i + 1, total |-> TOTAL_STEPS,
                        temperature |-> data.temperature]
    /\ calls["publish"] - calls["sleep"] \in {0, 1}
    /\ (pc \in {"loop_stop", "disconnect", "done"} /\ raised = Unbound)
         => /\ calls["sleep"] = TOTAL_STEPS
            /\ calls["publish"] = TOTAL_STEPS
            /\ progress.index = TOTAL_STEPS

\* The last iteration has published and printed, and is about to sleep.
C9_Witness ==
    /\ pc = "sleep"
    /\ i + 1 = TOTAL_STEPS
    /\ calls["publish"] = TOTAL_STEPS
    /\ calls["sleep"] = TOTAL_STEPS - 1

\* C10: an on_connect step, whatever its result code and wherever it falls
\* between two steps of the main thread, changes nothing the loop reads or
\* writes; and a run in which connect returned and no exception was raised
\* leaves the loop only after TOTAL_STEPS publishes, whatever on_connect
\* reported.
C10_OnConnectOnlyLogs ==
    /\ [][cbLog' # cbLog => UNCHANGED <<loopVars, cfg, loopRunning>>]_vars
    /\ []((pc \in {"loop_stop", "disconnect", "done"} /\ raised = Unbound)
            => calls["publish"] = TOTAL_STEPS)

\* on_connect reported a failure code, and the loop still ran to its end.
C10_Witness ==
    /\ pc = "done"
    /\ raised = Unbound
    /\ Len(cbLog) > 0
    /\ cbLog[1] = <<"Connection failed", 1>>
    /\ calls["publish"] = TOTAL_STEPS

====
